---- MODULE Spec2Model ----
(***************************************************************************)
(* Two-lock queue of src/src/tlqueue.rs (scottqueue::tlqueue::Queue<T>).   *)
(*                                                                         *)
(* The heap is a finite set of addresses Addr; a raw pointer is an address *)
(* or NULL.  Every statement of push and pop that touches shared memory is *)
(* one atomic step of one thread, and a load or store of one field is      *)
(* atomic: a pop that reads a next field while a push writes it sees the   *)
(* old or the new pointer.  A read through a raw pointer to a node that    *)
(* has been deallocated is undefined behaviour: it yields any value of the *)
(* field's type.  Dereferencing NULL kills the process.  Node::new may     *)
(* hand out again any address that was deallocated.                        *)
(***************************************************************************)
EXTENDS Integers, Sequences, FiniteSets, Bags, TLC

\* ---- bounds -------------------------------------------------------------
NThreads == 2          \* threads sharing the queue
MaxPush == 2           \* push calls of the threads per behaviour, and
                       \* items from_iter is given
MaxPop == 3            \* pop calls per behaviour

\* ---- values of the program ----------------------------------------------
NULL == 0              \* ptr::null_mut()
None == 0              \* Option::None
MaxNodes == 2 * MaxPush + 1
Addr == 1..MaxNodes
Values == 1..MaxPush
Payload == 0..MaxPush
Thread == 1..NThreads

VARIABLES
    head,          \* Queue.head: *mut Node<T> inside its Mutex
    tail,          \* Queue.tail: *mut Node<T> inside its Mutex
    mem,           \* heap: address -> Node {value, next}
    alloc,         \* addresses of the nodes that are allocated
    brk,           \* the heap is 1..brk: the addresses ever handed out
    headLock,      \* holder of the head Mutex, 0 when free
    tailLock,      \* holder of the tail Mutex, 0 when free
    headPoisoned,  \* head Mutex poisoned by a panic of its holder
    tailPoisoned,  \* tail Mutex poisoned by a panic of its holder
    pc,            \* position of each thread
    node,          \* push: new_node
    val,           \* push: value argument; pop: the payload taken
    retired,       \* pop: the node this pop handed to Box::from_raw
    threads,       \* the threads that exist
    input,         \* from_iter: the sequence it was given
    iter,          \* from_iter: the items not yet pushed
    building,      \* from_iter has not returned yet
    nPush,         \* push calls started
    nPop,          \* pop calls started
    pushed,        \* values of the pushes, in tail-lock acquisition order
    popped,        \* values of the successful pops, in head-lock order
    hist,          \* completed calls in completion order, kept while one
                   \* thread has the queue for itself
    crashed,       \* the process died on a NULL dereference or an abort
    popUAF,        \* a pop accessed a deallocated node
    pushUAF,       \* a push accessed a deallocated node
    doubleFree     \* a pop deallocated a node that was not allocated

vars == <<head, tail, mem, alloc, brk, headLock, tailLock, headPoisoned,
          tailPoisoned, pc, node, val, retired, threads, input, iter,
          building, nPush, nPop, pushed, popped, hist, crashed,
          popUAF, pushUAF, doubleFree>>

\* ---- Node ----------------------------------------------------------------
\* Content of an address that holds no node.
Unallocated == [value |-> None, next |-> NULL]

\* Node::new(v): the node it builds.
Node_new(v) == [value |-> v, next |-> NULL]

\* (*p).next for a non-null p: the field of a live node; for a node that was
\* deallocated any word, which is the address of a node of the heap, or one
\* whose dereference kills the process as NULL does.
ReadNext(p) == IF p \in alloc THEN {mem[p].next} ELSE 0..brk

\* (*p).value for a non-null p.
ReadValue(p) == IF p \in alloc THEN {mem[p].value} ELSE Payload

\* A store to the value field of *p; a store to deallocated memory is lost.
WriteValue(p, v) == IF p \in alloc THEN [mem EXCEPT ![p].value = v] ELSE mem

\* A store to the next field of *p.
WriteNext(p, n) == IF p \in alloc THEN [mem EXCEPT ![p].next = n] ELSE mem

\* The history after the call e completed.
Record(e) == IF Cardinality(threads) = 1 THEN Append(hist, e) ELSE hist

\* ---- Queue::new ----------------------------------------------------------
QueueNew ==
    /\ head = 1
    /\ tail = 1
    /\ mem = [a \in Addr |-> Unallocated]
    /\ alloc = {1}
    /\ brk = 1
    /\ headLock = 0
    /\ tailLock = 0
    /\ headPoisoned = FALSE
    /\ tailPoisoned = FALSE

NoHistory ==
    /\ node = [t \in Thread |-> NULL]
    /\ val = [t \in Thread |-> None]
    /\ retired = [t \in Thread |-> NULL]
    /\ nPush = 0
    /\ nPop = 0
    /\ pushed = <<>>
    /\ popped = <<>>
    /\ hist = <<>>
    /\ crashed = FALSE
    /\ popUAF = FALSE
    /\ pushUAF = FALSE
    /\ doubleFree = FALSE

\* A queue built by Queue::new() and shared by all the threads.
Init ==
    /\ QueueNew
    /\ NoHistory
    /\ threads = Thread
    /\ pc = [t \in Thread |-> "idle"]
    /\ input = <<>>
    /\ iter = <<>>
    /\ building = FALSE

\* ---- the threads ---------------------------------------------------------
\* Thread t makes the next call.  A thread that is idle has no state of its
\* own and the threads run the same code, so which of the idle threads makes
\* a call makes no difference: it is the first of them.
Caller(t) ==
    /\ t \in threads
    /\ pc[t] = "idle"
    /\ \A u \in threads : u < t => pc[u] # "idle"

\* ---- Queue::push ---------------------------------------------------------
\* Where a push returns to.
PushReturn == IF building THEN "from_iter" ELSE "idle"

\* line 60: let new_node = Node::new(Some(value));
PushEnter(t, v) ==
    /\ \E a \in (1..brk \cup {brk + 1}) \ alloc :
          /\ a \in Addr
          /\ alloc' = alloc \cup {a}
          /\ brk' = IF a > brk THEN a ELSE brk
          /\ mem' = [mem EXCEPT ![a] = Node_new(v)]
          /\ node' = [node EXCEPT ![t] = a]
    /\ val' = [val EXCEPT ![t] = v]
    /\ nPush' = nPush + 1
    /\ pc' = [pc EXCEPT ![t] = "push_lock"]

PushStart(t) ==
    /\ ~crashed
    /\ Caller(t)
    /\ nPush < Len(input) + MaxPush
    /\ PushEnter(t, nPush + 1)
    /\ UNCHANGED <<head, tail, headLock, tailLock, headPoisoned, tailPoisoned,
                   retired, threads, input, iter, building, nPop, pushed,
                   popped, hist, crashed, popUAF, pushUAF, doubleFree>>

\* A push that does not wait for the tail lock.
PushLockNoWait(t) ==
    /\ ~crashed
    /\ pc[t] = "push_lock"
    /\ IF tailPoisoned
       THEN /\ pc' = [pc EXCEPT ![t] = "panicked"]
            /\ hist' = Record(<<"push_panic", None>>)
            /\ UNCHANGED <<tailLock, pushed>>
       ELSE /\ tailLock' = t
            /\ pushed' = Append(pushed, val[t])
            /\ pc' = [pc EXCEPT ![t] = "push_link"]
            /\ UNCHANGED hist
    /\ UNCHANGED <<head, tail, mem, alloc, brk, headLock, headPoisoned,
                   tailPoisoned, node, val, retired, threads, input, iter,
                   building, nPush, nPop, popped, crashed, popUAF,
                   pushUAF, doubleFree>>

\* line 61: let mut tail = self.tail.lock().unwrap();
PushLock(t) ==
    /\ ~crashed
    /\ pc[t] = "push_lock"
    /\ tailLock = 0
    /\ IF tailPoisoned
       THEN /\ pc' = [pc EXCEPT ![t] = "panicked"]
            /\ hist' = Record(<<"push_panic", None>>)
            /\ UNCHANGED <<tailLock, pushed>>
       ELSE /\ tailLock' = t
            /\ pushed' = Append(pushed, val[t])
            /\ pc' = [pc EXCEPT ![t] = "push_link"]
            /\ UNCHANGED hist
    /\ UNCHANGED <<head, tail, mem, alloc, brk, headLock, headPoisoned,
                   tailPoisoned, node, val, retired, threads, input, iter,
                   building, nPush, nPop, popped, crashed, popUAF,
                   pushUAF, doubleFree>>

\* line 63: (**tail).next = new_node;
PushLink(t) ==
    /\ ~crashed
    /\ pc[t] = "push_link"
    /\ mem' = WriteNext(tail, node[t])
    /\ pushUAF' = (pushUAF \/ tail \notin alloc)
    /\ pc' = [pc EXCEPT ![t] = "push_swing"]
    /\ UNCHANGED <<head, tail, alloc, brk, headLock, tailLock, headPoisoned,
                   tailPoisoned, node, val, retired, threads, input, iter,
                   building, nPush, nPop, pushed, popped, hist, crashed,
                   popUAF, doubleFree>>

\* A push that, on an empty queue, makes its node the head as well.
PushSwingFirst(t) ==
    /\ ~crashed
    /\ pc[t] = "push_swing"
    /\ tail' = node[t]
    /\ head' = IF head = tail THEN node[t] ELSE head
    /\ tailLock' = 0
    /\ hist' = Record(<<"push", val[t]>>)
    /\ pc' = [pc EXCEPT ![t] = PushReturn]
    /\ node' = [node EXCEPT ![t] = NULL]
    /\ val' = [val EXCEPT ![t] = None]
    /\ UNCHANGED <<mem, alloc, brk, headLock, headPoisoned, tailPoisoned,
                   retired, threads, input, iter, building, nPush, nPop,
                   pushed, popped, crashed, popUAF, pushUAF,
                   doubleFree>>

\* lines 64-66: *tail = new_node; the guard is dropped.
PushSwing(t) ==
    /\ ~crashed
    /\ pc[t] = "push_swing"
    /\ tail' = node[t]
    /\ tailLock' = 0
    /\ hist' = Record(<<"push", val[t]>>)
    /\ pc' = [pc EXCEPT ![t] = PushReturn]
    /\ node' = [node EXCEPT ![t] = NULL]
    /\ val' = [val EXCEPT ![t] = None]
    /\ UNCHANGED <<head, mem, alloc, brk, headLock, headPoisoned, tailPoisoned,
                   retired, threads, input, iter, building, nPush, nPop,
                   pushed, popped, crashed, popUAF, pushUAF,
                   doubleFree>>

\* ---- Queue::pop ----------------------------------------------------------
\* line 80: pop is called (Iterator::next, lines 97-99, is this call).
PopStart(t) ==
    /\ ~crashed
    /\ Caller(t)
    /\ nPop < MaxPop
    /\ nPop' = nPop + 1
    /\ pc' = [pc EXCEPT ![t] = "pop_lock"]
    /\ UNCHANGED <<head, tail, mem, alloc, brk, headLock, tailLock, headPoisoned,
                   tailPoisoned, node, val, retired, threads, input, iter,
                   building, nPush, pushed, popped, hist, crashed, popUAF,
                   pushUAF, doubleFree>>

\* A pop that takes the head lock although it is poisoned.
PopLockIgnoringPoison(t) ==
    /\ ~crashed
    /\ pc[t] = "pop_lock"
    /\ headLock = 0
    /\ headLock' = t
    /\ pc' = [pc EXCEPT ![t] = "pop_check"]
    /\ UNCHANGED <<head, tail, mem, alloc, brk, tailLock, headPoisoned,
                   tailPoisoned, node, val, retired, threads, input, iter,
                   building, nPush, nPop, pushed, popped, hist, crashed,
                   popUAF, pushUAF, doubleFree>>

\* line 81: let mut head = self.head.lock().unwrap();
PopLock(t) ==
    /\ ~crashed
    /\ pc[t] = "pop_lock"
    /\ headLock = 0
    /\ IF headPoisoned
       THEN /\ pc' = [pc EXCEPT ![t] = "panicked"]
            /\ hist' = Record(<<"pop_panic", None>>)
            /\ UNCHANGED headLock
       ELSE /\ headLock' = t
            /\ pc' = [pc EXCEPT ![t] = "pop_check"]
            /\ UNCHANGED hist
    /\ UNCHANGED <<head, tail, mem, alloc, brk, tailLock, headPoisoned,
                   tailPoisoned, node, val, retired, threads, input, iter,
                   building, nPush, nPop, pushed, popped, crashed,
                   popUAF, pushUAF, doubleFree>>

\* A pop that retires the sentinel although the queue is empty.
ReturnNoneRetiring(t) ==
    /\ alloc' = alloc \ {head}
    /\ mem' = [mem EXCEPT ![head] = Unallocated]
    /\ UNCHANGED brk
    /\ headLock' = 0
    /\ hist' = Record(<<"pop", None>>)
    /\ pc' = [pc EXCEPT ![t] = "idle"]
    /\ UNCHANGED head

\* line 84: return None; the guard is dropped.
ReturnNone(t) ==
    /\ headLock' = 0
    /\ hist' = Record(<<"pop", None>>)
    /\ pc' = [pc EXCEPT ![t] = "idle"]
    /\ UNCHANGED <<head, mem, alloc, brk>>

\* lines 83-85: if (**head).next.is_null() { return None; }
PopCheck(t) ==
    /\ ~crashed
    /\ pc[t] = "pop_check"
    /\ IF head = NULL
       THEN /\ crashed' = TRUE
            /\ UNCHANGED <<head, mem, alloc, brk, headLock, pc, hist,
                           popUAF>>
       ELSE /\ popUAF' = (popUAF \/ head \notin alloc)
            /\ \E n \in ReadNext(head) :
                  IF n = NULL
                  THEN ReturnNone(t)
                  ELSE /\ pc' = [pc EXCEPT ![t] = "pop_take"]
                       /\ UNCHANGED <<head, mem, alloc, brk, headLock, hist>>
            /\ UNCHANGED crashed
    /\ UNCHANGED <<tail, tailLock, headPoisoned, tailPoisoned, node, val,
                   retired, threads, input, iter, building, nPush, nPop,
                   pushed, popped, pushUAF, doubleFree>>

\* line 86: let value = (*(**head).next).value.take().unwrap();
PopTake(t) ==
    /\ ~crashed
    /\ pc[t] = "pop_take"
    /\ \E n \in ReadNext(head) :
          IF n = NULL
          THEN /\ crashed' = TRUE
               /\ UNCHANGED <<mem, val, pc, headLock, headPoisoned, hist,
                              popUAF>>
          ELSE /\ popUAF' = (popUAF \/ head \notin alloc \/ n \notin alloc)
               /\ mem' = WriteValue(n, None)
               /\ \E v \in ReadValue(n) :
                     IF v = None
                     THEN /\ headPoisoned' = TRUE
                          /\ headLock' = 0
                          /\ hist' = Record(<<"pop_panic", None>>)
                          /\ pc' = [pc EXCEPT ![t] = "panicked"]
                          /\ UNCHANGED <<val>>
                     ELSE /\ val' = [val EXCEPT ![t] = v]
                          /\ pc' = [pc EXCEPT ![t] = "pop_free"]
                          /\ UNCHANGED <<headLock, headPoisoned, hist>>
               /\ UNCHANGED crashed
    /\ UNCHANGED <<head, tail, alloc, brk, tailLock, tailPoisoned, node, retired,
                   threads, input, iter, building, nPush, nPop, pushed,
                   popped, pushUAF, doubleFree>>

\* line 87: let _: Box<Node<T>> = Box::from_raw(*head);
\* The box is a temporary of this statement: the node is dropped and
\* deallocated here.
PopFree(t) ==
    /\ ~crashed
    /\ pc[t] = "pop_free"
    /\ retired' = [retired EXCEPT ![t] = head]
    /\ alloc' = alloc \ {head}
    /\ mem' = [mem EXCEPT ![head] = Unallocated]
    /\ UNCHANGED brk
    /\ doubleFree' = (doubleFree \/ head \notin alloc)
    /\ IF head \in alloc
       THEN crashed' = FALSE
       ELSE crashed' \in BOOLEAN
    /\ pc' = [pc EXCEPT ![t] = "pop_swing"]
    /\ UNCHANGED <<head, tail, headLock, tailLock, headPoisoned, tailPoisoned,
                   node, val, threads, input, iter, building, nPush, nPop,
                   pushed, popped, hist, popUAF, pushUAF>>

\* lines 88-90: *head = (**head).next; return Some(value); the guard is
\* dropped.
PopSwing(t) ==
    /\ ~crashed
    /\ pc[t] = "pop_swing"
    /\ \E n \in ReadNext(head) : head' = n
    /\ popUAF' = (popUAF \/ head \notin alloc)
    /\ headLock' = 0
    /\ popped' = Append(popped, val[t])
    /\ hist' = Record(<<"pop", val[t]>>)
    /\ retired' = [retired EXCEPT ![t] = NULL]
    /\ val' = [val EXCEPT ![t] = None]
    /\ pc' = [pc EXCEPT ![t] = "idle"]
    /\ UNCHANGED <<tail, mem, alloc, brk, tailLock, headPoisoned, tailPoisoned,
                   node, threads, input, iter, building, nPush, nPop,
                   pushed, crashed, pushUAF, doubleFree>>

\* ---- the shared queue ----------------------------------------------------
Next ==
    \E t \in Thread :
       \/ PushStart(t)
       \/ PushLock(t)
       \/ PushLink(t)
       \/ PushSwing(t)
       \/ PopStart(t)
       \/ PopLock(t)
       \/ PopCheck(t)
       \/ PopTake(t)
       \/ PopFree(t)
       \/ PopSwing(t)

Spec == Init /\ [][Next]_vars

\* ---- FromIterator::from_iter and Iterator::next --------------------------
\* The sequences from_iter may be given.  (A push that a thread calls on the
\* shared queue gets the number of the call as its value: the queue never
\* looks into a payload, and distinct payloads tell the elements apart.)
Inputs == UNION {[1..n -> Values] : n \in 0..MaxPush}

\* lines 104-108: let q = Queue::new(); for item in iterator { ... }
\* One thread owns the queue: it builds it from input, then uses it.
InitSeq ==
    /\ QueueNew
    /\ NoHistory
    /\ threads = {1}
    /\ pc = [t \in Thread |-> IF t = 1 THEN "from_iter" ELSE "idle"]
    /\ input \in Inputs
    /\ iter = input
    /\ building = TRUE

\* lines 105-106: for item in iterator { q.push(item); }
FromIterNext(t) ==
    /\ ~crashed
    /\ pc[t] = "from_iter"
    /\ iter # <<>>
    /\ PushEnter(t, Head(iter))
    /\ iter' = Tail(iter)
    /\ UNCHANGED <<head, tail, headLock, tailLock, headPoisoned, tailPoisoned,
                   retired, threads, input, building, nPop, pushed, popped,
                   hist, crashed, popUAF, pushUAF, doubleFree>>

\* line 108: q
FromIterReturn(t) ==
    /\ ~crashed
    /\ pc[t] = "from_iter"
    /\ iter = <<>>
    /\ building' = FALSE
    /\ pc' = [pc EXCEPT ![t] = "idle"]
    /\ UNCHANGED <<head, tail, mem, alloc, brk, headLock, tailLock, headPoisoned,
                   tailPoisoned, node, val, retired, threads, input, iter,
                   nPush, nPop, pushed, popped, hist, crashed, popUAF,
                   pushUAF, doubleFree>>

NextSeq ==
    \/ \E t \in Thread : FromIterNext(t)
    \/ \E t \in Thread : FromIterReturn(t)
    \/ Next

SeqSpec == InitSeq /\ [][NextSeq]_vars

\* ---- a queue filled by one thread, then shared ---------------------------
\* tests::_test_threads, lines 174-190: the thread that built and filled the
\* queue puts it in an Arc and spawns the threads that use it.
Spawn ==
    /\ ~crashed
    /\ threads = {1}
    /\ pc[1] = "idle"
    /\ ~building
    /\ threads' = Thread
    /\ UNCHANGED <<head, tail, mem, alloc, brk, headLock, tailLock, headPoisoned,
                   tailPoisoned, pc, node, val, retired, input, iter, building,
                   nPush, nPop, pushed, popped, hist, crashed, popUAF,
                   pushUAF, doubleFree>>

NextArc ==
    \/ \E t \in Thread : FromIterNext(t)
    \/ \E t \in Thread : FromIterReturn(t)
    \/ Spawn
    \/ ((building \/ threads = Thread) /\ Next)

ArcSpec == InitSeq /\ [][NextArc]_vars

\* ---- scheduling ----------------------------------------------------------
\* The steps of a call that has been made; the OS scheduler runs every
\* thread that can take a step.
Step(t) ==
    \/ PushLock(t)
    \/ PushLink(t)
    \/ PushSwing(t)
    \/ PopLock(t)
    \/ PopCheck(t)
    \/ PopTake(t)
    \/ PopFree(t)
    \/ PopSwing(t)

FairSpec == Spec /\ \A t \in Thread : WF_vars(Step(t))

\* ---- vocabulary of the properties ----------------------------------------
Range(s) == {s[i] : i \in DOMAIN s}

IsPrefix(s, r) == Len(s) <= Len(r) /\ \A i \in DOMAIN s : s[i] = r[i]

\* The multiset of the elements of a sequence.
SeqBag(s) == [v \in Range(s) |-> Cardinality({i \in DOMAIN s : s[i] = v})]

\* Threads inside a call.
InPush(t) == pc[t] \in {"push_lock", "push_link", "push_swing"}
InPop(t) == pc[t] \in {"pop_lock", "pop_check", "pop_take", "pop_free",
                       "pop_swing"}

\* Thread t takes a step of push, of pop.
PushStep(t) ==
    /\ pc'[t] # pc[t]
    /\ (InPush(t) \/ pc'[t] = "push_lock")
PopStep(t) ==
    \/ pc'[t] # pc[t] /\ (InPop(t) \/ pc'[t] = "pop_lock")
    \/ InPop(t) /\ crashed' # crashed

\* Threads inside the critical section of push, of pop.
PushCS == {t \in Thread : pc[t] \in {"push_link", "push_swing"}}
PopCS == {t \in Thread : pc[t] \in {"pop_check", "pop_take", "pop_free",
                                     "pop_swing"}}

\* The arguments of the pushes that were called and wait for the tail lock.
Waiting == {t \in Thread : pc[t] = "push_lock"}

\* Values handed to push so far, as a multiset.
CalledBag == SeqBag(pushed) (+) BagOfAll(LAMBDA t : val[t], SetToBag(Waiting))

\* Elements in the queue: linked by a push and not yet taken by a pop.
NumLinked == Len(pushed) - Cardinality({t \in Thread : pc[t] = "push_link"})
Queued == NumLinked - Len(popped)

\* The nodes met by following next from p, at most k of them.
RECURSIVE ChainFrom(_, _)
ChainFrom(p, k) ==
    IF p = NULL \/ p \notin alloc \/ k = 0
    THEN <<>>
    ELSE <<p>> \o ChainFrom(mem[p].next, k - 1)

Chain == ChainFrom(head, MaxNodes)

\* The payloads behind the sentinel, head to tail.
Content == [i \in 1..(Len(Chain) - 1) |-> mem[Chain[i + 1]].value]

\* The queue is empty as the code sees it: the sentinel has no successor.
EmptyQueue == head \in alloc /\ mem[head].next = NULL

\* ---- C1 ------------------------------------------------------------------
\* C1: every pushed value is returned by at most one successful pop, and
\* once all pushes have completed and as many pops have succeeded as there
\* were pushes, the popped values are the pushed values as multisets.
C1_NoLossNoDuplication ==
    /\ SeqBag(popped) \sqsubseteq CalledBag
    /\ ((\A t \in Thread : ~InPush(t)) /\ Len(popped) = nPush)
          => SeqBag(popped) = SeqBag(pushed)

\* ---- C2 ------------------------------------------------------------------
\* k pushes, then only pops, at most k of them.
PushesThenPops(h, k) ==
    /\ k <= Len(h)
    /\ Len(h) <= 2 * k
    /\ \A i \in 1..k : h[i][1] = "push"
    /\ \A i \in (k + 1)..Len(h) : h[i][1] # "push"

\* C2: one thread pushes v1..vk onto a fresh queue and then pops up to k
\* times with nothing in between: the i-th pop returns vi.
C2_SequentialFIFO ==
    \A k \in 0..MaxPush :
        (PushesThenPops(hist, k) /\ nPush = k /\ nPop <= k)
           => /\ ~crashed
              /\ \A i \in (k + 1)..Len(hist) :
                     hist[i] = <<"pop", hist[i - k][2]>>

\* ---- C3 ------------------------------------------------------------------
\* C3: the values of the successful pops, in head-lock order, are a prefix
\* of the values of the pushes, in tail-lock order.
C3_LinearizedFIFO == IsPrefix(popped, pushed)

\* ---- C4 ------------------------------------------------------------------
\* C4: a pop that holds the head lock returns absent exactly when no
\* element is in the queue at that instant, and otherwise it returns the
\* oldest element.
C4_AbsentIffEmpty ==
    [][\A t \in Thread :
         /\ (pc[t] = "pop_check" /\ pc'[t] \in {"idle", "pop_take"})
               => ((pc'[t] = "idle") <=> (Queued = 0))
         /\ (pc[t] = "pop_swing" /\ pc'[t] = "idle")
               => /\ Len(popped') <= Len(pushed)
                  /\ popped'[Len(popped')] = pushed[Len(popped')]]_vars

\* ---- C5 ------------------------------------------------------------------
\* C5: every value a pop returned had been handed to a push, and the unwrap
\* of the taken payload never failed (only that panic poisons the head
\* lock).
C5_NoFabricatedValues ==
    /\ Range(popped) \subseteq DOMAIN CalledBag
    /\ ~headPoisoned

\* ---- C6 ------------------------------------------------------------------
\* C6: under fair scheduling every call that was started returns.
C6_EveryCallCompletes ==
    \A t \in Thread : (pc[t] # "idle") ~> (pc[t] = "idle")

\* ---- C7 ------------------------------------------------------------------
\* k pushes and then k successful pops.
Drained(h, k) ==
    /\ Len(h) >= 2 * k
    /\ \A i \in 1..k : h[i][1] = "push"
    /\ \A i \in (k + 1)..(2 * k) : h[i][1] = "pop" /\ h[i][2] # None

\* C7: after k pushes and k pops that emptied the queue, push(v) and then
\* pop returns v, and one more pop returns absent.
C7_DrainThenRefill ==
    \A k \in 1..MaxPush :
        (Drained(hist, k) /\ Len(hist) > 2 * k /\ hist[2 * k + 1][1] = "push"
            /\ nPush = k + 1)
           => /\ (Len(hist) = 2 * k + 1 /\ nPop = k + 1) => ~crashed
              /\ Len(hist) >= 2 * k + 2
                    => hist[2 * k + 2] = <<"pop", hist[2 * k + 1][2]>>
              /\ (Len(hist) = 2 * k + 2 /\ nPop = k + 2) => ~crashed
              /\ Len(hist) >= 2 * k + 3
                    => hist[2 * k + 3] = <<"pop", None>>

Built == ~building /\ input # <<>> /\ nPop = 0 /\ nPush = Len(input)

\* The queue holds exactly the values s, in order.
Holds(s) ==
    /\ Len(Chain) = Len(s) + 1
    /\ Content = s
    /\ mem[head].value = None
    /\ tail = Chain[Len(Chain)]
    /\ alloc = Range(Chain)

\* C9: from_iter(input) returns the queue that new() and one push per item
\* build, and draining it yields exactly input, then absent.
C9_BulkConstruction ==
    /\ (~building /\ nPop = 0 /\ \A t \in Thread : pc[t] = "idle")
          => (Holds(pushed) /\ (Built => pushed = input))
    /\ (input # <<>> /\ nPush = Len(input) /\ ~building)
          => /\ nPop <= Len(input) + 1 => ~crashed
             /\ \A i \in (Len(input) + 1)..Len(hist) :
                   hist[i] = IF i <= 2 * Len(input)
                             THEN <<"pop", input[i - Len(input)]>>
                             ELSE <<"pop", None>>

\* ---- C10 -----------------------------------------------------------------
\* C10: when a pop has deallocated the old sentinel, head no longer refers
\* to it, and no pop reads or writes a node that was deallocated.
C10_DeallocAfterHeadUpdate ==
    /\ \A t \in Thread : retired[t] # NULL => head # retired[t]
    /\ ~popUAF

\* ---- C11 -----------------------------------------------------------------
\* C11: no push reads or writes, through tail or a successor link, a node
\* that a pop has deallocated.
C11_NoPushUseAfterFree == ~pushUAF

\* ---- C12 -----------------------------------------------------------------
\* C12: whenever no push is between linking its node and advancing tail
\* (the tail lock is free), the next links from the node head refers to
\* reach the node tail refers to, that node has no successor, and if the
\* sentinel has no successor then head and tail refer to the same node.
C12_ChainShape ==
    tailLock = 0 =>
        /\ head \in alloc
        /\ tail \in Range(Chain)
        /\ mem[tail].next = NULL
        /\ EmptyQueue => head = tail

\* ---- C13 -----------------------------------------------------------------
\* C13: whenever no pop is between taking a payload and advancing head (the
\* head lock is free), the node head refers to is live and has no payload,
\* it is the only live node without payload, and every node behind it on
\* the chain has a payload.
C13_SentinelPayload ==
    headLock = 0 =>
        /\ head \in alloc
        /\ mem[head].value = None
        /\ \A a \in alloc \ {head} : mem[a].value # None
        /\ \A i \in 2..Len(Chain) : mem[Chain[i]].value # None

\* ---- C14 -----------------------------------------------------------------
\* C14: a step of push leaves head and the head lock as they are and
\* changes no node but the one tail refers to and the one it allocated; a
\* step of pop leaves tail and the tail lock as they are; the head lock is
\* held only by pops and the tail lock only by pushes.
C14_FrameOfTwoEnds ==
    [][\A t \in Thread :
         /\ PushStep(t)
               => /\ UNCHANGED <<head, headLock, headPoisoned, popped>>
                  /\ \A a \in Addr \ {tail, node'[t]} : mem'[a] = mem[a]
         /\ PopStep(t)
               => UNCHANGED <<tail, tailLock, tailPoisoned, pushed>>
         /\ headLock' = t => t \in PopCS'
         /\ tailLock' = t => t \in PushCS']_vars

\* A push holds the tail lock and a pop holds the head lock.
C14_Witness ==
    \E t, u \in Thread :
        /\ tailLock = t
        /\ headLock = u
        /\ pc[t] = "push_swing"
        /\ pc[u] = "pop_take"

\* ---- C15 -----------------------------------------------------------------
\* C15: at most one thread is between acquiring and releasing the tail lock
\* in push, and it is the holder of that lock; at most one thread is
\* between acquiring and releasing the head lock in pop, and it is the
\* holder of that lock.
C15_MutualExclusion ==
    /\ Cardinality(PushCS) <= 1
    /\ Cardinality(PopCS) <= 1
    /\ \A t \in PushCS : tailLock = t
    /\ \A t \in PopCS : headLock = t

\* A push waits for the tail lock that another push holds.
C15_Witness ==
    \E t, u \in Thread :
        /\ t \in PushCS
        /\ pc[u] = "push_lock"
        /\ tailLock = t

\* ---- C16 -----------------------------------------------------------------
\* C16: the next field of a live node changes only in a push that holds the
\* tail lock and links its node, at most once: a next field that is not
\* NULL stays as it is while the node lives; and the reads of the sentinel's
\* next on lines 86 and 88 of a pop find the node the read on line 83
\* found: the sentinel is live and has its successor.
C16_WriteOnceLink ==
    [][/\ \A a \in alloc \cap alloc' :
             mem'[a].next # mem[a].next
                => /\ mem[a].next = NULL
                   /\ \E t \in Thread :
                         /\ tailLock = t
                         /\ pc[t] = "push_link"
                         /\ pc'[t] = "push_swing"
       /\ \A t \in Thread :
             pc'[t] \in {"pop_take", "pop_free", "pop_swing"}
                => /\ head' \in alloc'
                   /\ mem'[head'].next # NULL]_vars

\* ---- C17 -----------------------------------------------------------------
\* C17: a lock that was poisoned stays poisoned; a pop that comes to the
\* poisoned head lock (a push that comes to the poisoned tail lock) panics
\* there and leaves head, tail, the nodes and the locks as they are; no pop
\* is inside its critical section while the head lock is poisoned; and
\* while only the head lock is poisoned the process does not die and a push
\* takes the tail lock as before.
C17_PoisoningIsFatal ==
    [][/\ headPoisoned => (headPoisoned' /\ PopCS' = {} /\ ~crashed')
       /\ tailPoisoned => (tailPoisoned' /\ PushCS' = {})
       /\ \A t \in Thread :
             /\ (headPoisoned /\ pc[t] = "pop_lock" /\ pc'[t] # "pop_lock")
                   => /\ pc'[t] = "panicked"
                      /\ UNCHANGED <<head, tail, mem, alloc, brk, headLock,
                                     tailLock, pushed, popped>>
             /\ (tailPoisoned /\ pc[t] = "push_lock" /\ pc'[t] # "push_lock")
                   => /\ pc'[t] = "panicked"
                      /\ UNCHANGED <<head, tail, mem, alloc, brk, headLock,
                                     tailLock, pushed, popped>>
             /\ (headPoisoned /\ ~tailPoisoned /\ pc[t] = "push_lock"
                    /\ pc'[t] # "push_lock")
                   => /\ pc'[t] = "push_link"
                      /\ tailLock' = t]_vars

\* A pop panicked inside its critical section, a later pop panicked at the
\* head lock, and both pushes went through.
C17_Witness ==
    /\ headPoisoned
    /\ Cardinality({t \in Thread : pc[t] = "panicked"}) = 2
    /\ Len(pushed) = 2
    /\ tailLock = 0
    /\ tail \in alloc
    /\ mem[tail].value = 2

\* ---- C18 -----------------------------------------------------------------
\* C18: the call of push allocates one node and no other step of push
\* allocates or deallocates; a step of pop deallocates at most one node,
\* never one that is not allocated, and none before the pop has found a
\* successor of the sentinel, so a pop that returns absent none; and when
\* no call is in progress there are as many allocated nodes as elements in
\* the queue, plus one.
C18_NodeAccounting ==
    [][/\ ~doubleFree'
       /\ \A t \in Thread :
             /\ PushStep(t)
                   => IF pc'[t] = "push_lock"
                      THEN /\ alloc \subseteq alloc'
                           /\ Cardinality(alloc') = Cardinality(alloc) + 1
                      ELSE alloc' = alloc
             /\ PopStep(t)
                   => /\ alloc' \subseteq alloc
                      /\ Cardinality(alloc \ alloc') <= 1
                      /\ pc[t] \in {"pop_lock", "pop_check"} => alloc' = alloc
       /\ (\A t \in Thread : pc'[t] = "idle")
             => Cardinality(alloc') = Queued' + 1]_vars

\* ---- C19 -----------------------------------------------------------------
\* C19: tail refers to a node that is allocated, in every reachable state.
C19_NoDanglingTail == tail \in alloc

====
